---- MODULE Spec2Model ----
(***************************************************************************)
(* Model of octoprint_obico/janus.py: class JanusConn.                     *)
(*                                                                         *)
(* Threads of control:                                                     *)
(*   - the caller of start()            (pc_start)                         *)
(*   - the supervisor thread run_janus_forever (pc_sup)                    *)
(*   - the caller of shutdown()         (pc_sd)                            *)
(*   - the caller of pass_to_janus()    (pc_send)                          *)
(*   - one websocket thread per WebSocketClient, running the on_message    *)
(*     and on_close callbacks of that link (link[l])                       *)
(* None is modelled as 0 for the two handles janus_ws and janus_proc.      *)
(***************************************************************************)
EXTENDS Integers, Sequences, FiniteSets, TLC

\* ------------------------------------------------------------------------
\* Bounds of the model
\* ------------------------------------------------------------------------
\* link identities in use at the same time (identities are recycled)
MaxLinks == 3
\* non-empty lines one gateway process writes before it stops writing
MaxLines == 1
\* calls of shutdown()
MaxShutdowns == 1
\* times the remote end closes a link, where that is bounded
MaxCloses == 1

\* ------------------------------------------------------------------------
\* Program constants
\* ------------------------------------------------------------------------
\* ExpoBackoff(120, max_attempts=20)
LINK_MAX_ATTEMPTS == 20
\* @backoff.on_exception(backoff.expo, Exception, max_tries=5) on run_janus
RUN_MAX_TRIES == 5
\* @backoff.on_exception(backoff.expo, Exception, max_tries=10) on wait_for_janus
PROBE_MAX_TRIES == 10
\* num_line_output < 1000
LOG_CAP == 1000

None == 0
Links == 1..MaxLinks
Procs == 1..RUN_MAX_TRIES

\* ------------------------------------------------------------------------
\* JSON values as json.loads produces them
\* ------------------------------------------------------------------------
JNull == [t |-> "null"]
JBool(b) == [t |-> "bool", v |-> b]
JNum(n) == [t |-> "num", v |-> n]
JStr(s) == [t |-> "str", v |-> s]
JArr(s) == [t |-> "arr", v |-> s]
JObj(f) == [t |-> "obj", v |-> f]
EmptyDict == JObj(<<>>)

\* the outcome of an expression that raises
Raise == [t |-> "raise"]
IsRaise(x) == x.t = "raise"

\* the inbound texts of the model with what json.loads makes of each
Inbound ==
  << <<"not json", Raise>>,
     <<"{\"janus\":\"ack\"", Raise>>,
     <<"null", JNull>>,
     <<"17", JNum(17)>>,
     <<"\"ack\"", JStr("ack")>>,
     <<"[]", JArr(<<>>)>>,
     <<"[{\"janus\":\"ack\"}]", JArr(<<JObj([janus |-> JStr("ack")])>>)>>,
     <<"{}", EmptyDict>>,
     <<"{\"janus\":\"ack\"}", JObj([janus |-> JStr("ack")])>>,
     <<"{\"plugindata\":null}", JObj([plugindata |-> JNull])>>,
     <<"{\"plugindata\":\"x\"}", JObj([plugindata |-> JStr("x")])>>,
     <<"{\"plugindata\":{}}", JObj([plugindata |-> EmptyDict])>>,
     <<"{\"plugindata\":{\"data\":null}}",
       JObj([plugindata |-> JObj([data |-> JNull])])>>,
     <<"{\"plugindata\":{\"data\":[]}}",
       JObj([plugindata |-> JObj([data |-> JArr(<<>>)])])>>,
     <<"{\"plugindata\":{\"data\":{}}}",
       JObj([plugindata |-> JObj([data |-> EmptyDict])])>>,
     <<"{\"plugindata\":{\"data\":{\"other\":1}}}",
       JObj([plugindata |-> JObj([data |-> JObj([other |-> JNum(1)])])])>>,
     <<"{\"plugindata\":{\"data\":{\"thespaghettidetective\":{\"ref\":1}}}}",
       JObj([plugindata |-> JObj([data |->
         JObj([thespaghettidetective |-> JObj([ref |-> JNum(1)])])])])>>,
     <<"{\"plugindata\":{\"data\":{\"thespaghettidetective\":\"cmd\"}}}",
       JObj([plugindata |-> JObj([data |->
         JObj([thespaghettidetective |-> JStr("cmd")])])])>>,
     <<"{\"plugindata\":{\"data\":{\"thespaghettidetective\":1}}}",
       JObj([plugindata |-> JObj([data |->
         JObj([thespaghettidetective |-> JNum(1)])])])>>,
     <<"{\"plugindata\":{\"data\":{\"thespaghettidetective\":true}}}",
       JObj([plugindata |-> JObj([data |->
         JObj([thespaghettidetective |-> JBool(TRUE)])])])>>,
     <<"{\"plugindata\":{\"data\":{\"thespaghettidetective\":[0]}}}",
       JObj([plugindata |-> JObj([data |->
         JObj([thespaghettidetective |-> JArr(<<JNum(0)>>)])])])>>,
     <<"{\"plugindata\":{\"data\":{\"thespaghettidetective\":{}}}}",
       JObj([plugindata |-> JObj([data |->
         JObj([thespaghettidetective |-> EmptyDict])])])>>,
     <<"{\"plugindata\":{\"data\":{\"thespaghettidetective\":\"\"}}}",
       JObj([plugindata |-> JObj([data |->
         JObj([thespaghettidetective |-> JStr("")])])])>>,
     <<"{\"plugindata\":{\"data\":{\"thespaghettidetective\":0}}}",
       JObj([plugindata |-> JObj([data |->
         JObj([thespaghettidetective |-> JNum(0)])])])>>,
     <<"{\"plugindata\":{\"data\":{\"thespaghettidetective\":false}}}",
       JObj([plugindata |-> JObj([data |->
         JObj([thespaghettidetective |-> JBool(FALSE)])])])>>,
     <<"{\"plugindata\":{\"data\":{\"thespaghettidetective\":null}}}",
       JObj([plugindata |-> JObj([data |->
         JObj([thespaghettidetective |-> JNull])])])>>,
     <<"{\"plugindata\":{\"data\":{\"thespaghettidetective\":[]}}}",
       JObj([plugindata |-> JObj([data |->
         JObj([thespaghettidetective |-> JArr(<<>>)])])])>> >>

RawMsgs == {Inbound[i][1] : i \in 1..Len(Inbound)}

\* json.loads(raw_msg); Raise stands for the ValueError of a text that is
\* not JSON
loads(raw) == Inbound[CHOOSE i \in 1..Len(Inbound) : Inbound[i][1] = raw][2]

\* the truth value Python gives a JSON value in `if x:`
Truthy(x) ==
  CASE x.t = "null" -> FALSE
    [] x.t = "bool" -> x.v
    [] x.t = "num" -> x.v # 0
    [] x.t = "str" -> x.v # ""
    [] x.t = "arr" -> Len(x.v) > 0
    [] x.t = "obj" -> DOMAIN x.v # {}

\* x.get(key, {}): only a dict has .get, anything else raises AttributeError
Get(x, key) ==
  IF IsRaise(x) THEN Raise
  ELSE IF x.t # "obj" THEN Raise
  ELSE IF key \in DOMAIN x.v THEN x.v[key]
  ELSE EmptyDict

\* the envelope contains the path plugindata.data.thespaghettidetective
HasPath(x) ==
  /\ ~IsRaise(x)
  /\ x.t = "obj" /\ "plugindata" \in DOMAIN x.v
  /\ x.v["plugindata"].t = "obj" /\ "data" \in DOMAIN x.v["plugindata"].v
  /\ x.v["plugindata"].v["data"].t = "obj"
  /\ "thespaghettidetective" \in DOMAIN x.v["plugindata"].v["data"].v

\* process_janus_msg with json.loads placed before the try: the ValueError
\* of a text that is not JSON leaves the function unreported
process_janus_msg_loads_outside_try(raw_msg, sinkRaises) ==
  LET msg == loads(raw_msg)
      to_plugin == Get(Get(Get(msg, "plugindata"), "data"), "thespaghettidetective")
  IN  IF IsRaise(msg)
        THEN [plugin |-> <<>>, server |-> <<>>, captures |-> 0,
              ret |-> JNull, raised |-> TRUE]
      ELSE IF IsRaise(to_plugin)
        THEN [plugin |-> <<>>, server |-> <<>>, captures |-> 1,
              ret |-> JNull, raised |-> FALSE]
      ELSE IF Truthy(to_plugin)
        THEN [plugin |-> <<to_plugin>>, server |-> <<>>,
              captures |-> IF sinkRaises THEN 1 ELSE 0,
              ret |-> JNull, raised |-> FALSE]
      ELSE [plugin |-> <<>>, server |-> <<[janus |-> raw_msg]>>,
            captures |-> IF sinkRaises THEN 1 ELSE 0,
            ret |-> JNull, raised |-> FALSE]

\* what one call of process_janus_msg does: the payloads handed to
\* on_message_to_plugin, the dicts handed to send_ws_msg_to_server, the
\* number of sentry.captureException calls, the value returned, and whether
\* an exception leaves the function.  sinkRaises says whether the
\* collaborator that is called raises.
process_janus_msg(raw_msg, sinkRaises) ==
  LET msg == loads(raw_msg)
      to_plugin == Get(Get(Get(msg, "plugindata"), "data"), "thespaghettidetective")
  IN  IF IsRaise(to_plugin)
        THEN [plugin |-> <<>>, server |-> <<>>, captures |-> 1,
              ret |-> JNull, raised |-> FALSE]
      ELSE IF Truthy(to_plugin)
        THEN [plugin |-> <<to_plugin>>, server |-> <<>>,
              captures |-> IF sinkRaises THEN 1 ELSE 0,
              ret |-> JNull, raised |-> FALSE]
      ELSE [plugin |-> <<>>, server |-> <<[janus |-> raw_msg]>>,
            captures |-> IF sinkRaises THEN 1 ELSE 0,
            ret |-> JNull, raised |-> FALSE]


\* ------------------------------------------------------------------------
\* State
\* ------------------------------------------------------------------------
VARIABLES
  env,              \* what the surroundings do in this run: closes (times the
                    \*   remote end still closes a link, Unbounded for any
                    \*   number), msgs (texts that arrive), sends
                    \*   (pass_to_janus is called), shutdowns (calls of
                    \*   shutdown()), lines (lines a gateway process writes),
                    \*   closeFails (close() of a link may raise)
  external,         \* os.getenv('JANUS_SERVER') is set to a non-blank value
  shutting_down,    \* self.shutting_down
  janus_ws,         \* self.janus_ws: None or a link
  janus_proc,       \* self.janus_proc: None or a process
  attempts,         \* self.janus_ws_backoff: attempt count
  link,             \* per link: "free", "open", "closed" (on_close is due),
                    \*   "cb_check", "cb_start", "cb_assign" (inside on_close)
  cbNew,            \* per link: the link its on_close has constructed
  cbExh,            \* per link: the backoff was exhausted when on_close ran
  pc_start,         \* position of the caller of start()
  probeTries,       \* failed tries of wait_for_janus
  probed,           \* wait_for_janus has returned
  startNew,         \* the link start() has constructed
  pc_sup,           \* position of the supervisor thread
  tries,            \* calls of run_janus made by the retry decorator
  num_line_output,  \* local of run_janus
  hProc,            \* the process a blocking readline()/wait() is bound to
  alive,            \* the gateway processes that are running
  alerts,           \* alerts enqueued on alert_queue
  captures,         \* sentry.captureException calls of the supervisor thread
  pc_sd,            \* position of the caller of shutdown()
  sdCalls,          \* calls of shutdown() made so far
  pc_send,          \* position of the caller of pass_to_janus()
  last              \* what the step just taken did (observation only)

vars == <<env, external, shutting_down, janus_ws, janus_proc, attempts, link,
          cbNew, cbExh, pc_start, probeTries, probed, startNew, pc_sup,
          tries,
          num_line_output, hProc, alive, alerts, captures, pc_sd, sdCalls,
          pc_send, last>>

linkVars == <<link, cbNew, cbExh>>
startVars == <<pc_start, probeTries, probed, startNew>>
supVars == <<pc_sup, tries, num_line_output, hProc, alerts, captures>>
sdVars == <<pc_sd, sdCalls>>

NoOp == [op |-> "none"]

Unbounded == -1

\* texts standing for the three outcomes of process_janus_msg
CoreMsgs == {"not json", "{\"janus\":\"ack\"}",
             "{\"plugindata\":{\"data\":{\"thespaghettidetective\":\"cmd\"}}}"}

\* JanusConn.__init__ in the surroundings e, with the override set or not
InitIn(e, override) ==
  /\ env = e
  /\ external = override
  /\ shutting_down = FALSE
  /\ janus_ws = None
  /\ janus_proc = None
  /\ attempts = 0
  /\ link = [l \in Links |-> "free"]
  /\ cbNew = [l \in Links |-> None]
  /\ cbExh = [l \in Links |-> FALSE]
  /\ pc_start = "init"
  /\ probeTries = 0
  /\ probed = FALSE
  /\ startNew = None
  /\ pc_sup = "none"
  /\ tries = 0
  /\ num_line_output = 0
  /\ hProc = None
  /\ alive = {}
  /\ alerts = 0
  /\ captures = 0
  /\ pc_sd = "idle"
  /\ sdCalls = 0
  /\ pc_send = "idle"
  /\ last = NoOp

\* the surroundings of the two deployments: the locally supervised gateway,
\* and the external gateway with a sender
Supervised ==
  [closes |-> 0, msgs |-> {}, sends |-> FALSE,
   shutdowns |-> MaxShutdowns, lines |-> MaxLines, closeFails |-> TRUE]
ExternalGw ==
  [closes |-> MaxCloses, msgs |-> CoreMsgs, sends |-> TRUE,
   shutdowns |-> MaxShutdowns, lines |-> 0, closeFails |-> TRUE]

Init ==
  \/ InitIn(Supervised, FALSE)
  \/ InitIn(ExternalGw, TRUE)

\* an external gateway whose link is closed any number of times
InitLink ==
  InitIn([closes |-> Unbounded, msgs |-> CoreMsgs, sends |-> FALSE,
          shutdowns |-> MaxShutdowns, lines |-> 0, closeFails |-> FALSE],
         TRUE)

\* an external gateway that sends every text of Inbound
InitMsg ==
  InitIn([closes |-> MaxCloses, msgs |-> RawMsgs, sends |-> FALSE,
          shutdowns |-> MaxShutdowns, lines |-> 0, closeFails |-> FALSE],
         TRUE)

\* either deployment, shut down more than once, with a close() that works
InitShutdown ==
  \E override \in BOOLEAN :
    InitIn([closes |-> 0, msgs |-> {}, sends |-> FALSE,
            shutdowns |-> MaxShutdowns + 1, lines |-> 0,
            closeFails |-> FALSE], override)

\* a supervised gateway that writes more lines than are logged, and is not
\* shut down
InitDrain ==
  InitIn([closes |-> 0, msgs |-> {}, sends |-> FALSE, shutdowns |-> 0,
          lines |-> LOG_CAP + MaxLines, closeFails |-> FALSE], FALSE)

\* ------------------------------------------------------------------------
\* ExpoBackoff (utils.py) and WebSocketClient (ws.py)
\* ------------------------------------------------------------------------
\* ExpoBackoff.more(e): records a failure; the count stays within max_attempts
more(n) == IF n < LINK_MAX_ATTEMPTS THEN n + 1 ELSE n
\* ExpoBackoff.exhausted()
exhausted(n) == n >= LINK_MAX_ATTEMPTS
\* ExpoBackoff.reset()
reset(n) == 0

\* WebSocketClient.connected()
ws_connected(l) == link[l] = "open"

\* a link identity nobody holds: WebSocketClient(...) returns a fresh object
Held == {janus_ws, startNew} \cup {cbNew[l] : l \in Links}
Unused == {l \in Links : link[l] = "free" /\ l \notin Held}
Fresh == CHOOSE l \in Unused : \A m \in Unused : l <= m

\* ------------------------------------------------------------------------
\* start()
\* ------------------------------------------------------------------------
\* start() that opens the link right after starting the supervisor thread,
\* without waiting for the gateway
start_without_probe ==
  /\ pc_start = "init"
  /\ pc_start' = "ws_new"
  /\ pc_sup' = IF external THEN pc_sup ELSE "setup"
  /\ last' = NoOp
  /\ UNCHANGED <<env, external, shutting_down, janus_ws, janus_proc, attempts,
                 linkVars, probeTries, probed, startNew, tries, num_line_output,
                 hProc, alive, alerts, captures, sdVars, pc_send>>

\* start() that ignores the JANUS_SERVER override
start_always_supervises ==
  /\ pc_start = "init"
  /\ pc_start' = "probe"
  /\ pc_sup' = "setup"
  /\ last' = NoOp
  /\ UNCHANGED <<env, external, shutting_down, janus_ws, janus_proc, attempts,
                 linkVars, probeTries, probed, startNew, tries, num_line_output,
                 hProc, alive, alerts, captures, sdVars, pc_send>>

\* lines 44-47 and 97-99: with the override only the link is opened,
\* otherwise the supervisor thread is started
start ==
  /\ pc_start = "init"
  /\ IF external
       THEN /\ pc_start' = "ws_new"
            /\ UNCHANGED pc_sup
       ELSE /\ pc_start' = "probe"
            /\ pc_sup' = "setup"
  /\ last' = NoOp
  /\ UNCHANGED <<env, external, shutting_down, janus_ws, janus_proc, attempts,
                 linkVars, probeTries, probed, startNew, tries, num_line_output,
                 hProc, alive, alerts, captures, sdVars, pc_send>>

\* one try of wait_for_janus: the port is connectable or not; the 10th
\* failure leaves start() as an exception
wait_for_janus ==
  /\ pc_start = "probe"
  /\ \E connects \in BOOLEAN :
       IF connects
         THEN /\ pc_start' = "ws_new"
              /\ probed' = TRUE
              /\ UNCHANGED probeTries
         ELSE /\ probeTries' = probeTries + 1
              /\ pc_start' = IF probeTries + 1 >= PROBE_MAX_TRIES
                               THEN "raised" ELSE "probe"
              /\ UNCHANGED probed
  /\ last' = NoOp
  /\ UNCHANGED <<env, external, shutting_down, janus_ws, janus_proc, attempts,
                 linkVars, startNew, supVars, alive, sdVars, pc_send>>

\* start_janus_ws called by start(): WebSocketClient(...) is constructed
start_janus_ws_new ==
  /\ pc_start = "ws_new"
  /\ Unused # {}
  /\ link' = [link EXCEPT ![Fresh] = "open"]
  /\ startNew' = Fresh
  /\ pc_start' = "ws_assign"
  /\ last' = [op |-> "start_janus_ws", sd |-> shutting_down]
  /\ UNCHANGED <<env, external, shutting_down, janus_ws, janus_proc, attempts,
                 cbNew, cbExh, probeTries, probed, supVars, alive, sdVars,
                 pc_send>>

\* start_janus_ws called by start(): self.janus_ws = <the new client>
start_janus_ws_assign ==
  /\ pc_start = "ws_assign"
  /\ janus_ws' = startNew
  /\ startNew' = None
  /\ pc_start' = "done"
  /\ last' = NoOp
  /\ UNCHANGED <<env, external, shutting_down, janus_proc, attempts, linkVars,
                 probeTries, probed, supVars, alive, sdVars, pc_send>>


\* ------------------------------------------------------------------------
\* The websocket thread of a link: on_message, on_close
\* ------------------------------------------------------------------------
\* the link goes down (remote close or error); its on_close is due
ws_closed(l) ==
  /\ link[l] = "open"
  /\ env.closes # 0
  /\ env' = IF env.closes = Unbounded THEN env
            ELSE [env EXCEPT !.closes = env.closes - 1]
  /\ link' = [link EXCEPT ![l] = "closed"]
  /\ last' = NoOp
  /\ UNCHANGED <<external, shutting_down, janus_ws, janus_proc, attempts,
                 cbNew, cbExh, startVars, supVars, alive, sdVars, pc_send>>

\* on_message that resets the backoff on every message
on_message_always_resets(l) ==
  /\ link[l] = "open"
  /\ \E raw_msg \in env.msgs, sinkRaises \in BOOLEAN :
       LET r == process_janus_msg(raw_msg, sinkRaises)
       IN  /\ attempts' = reset(attempts)
           /\ last' = [op |-> "on_message", link |-> l, raw |-> raw_msg,
                       plugin |-> r.plugin, server |-> r.server,
                       captures |-> r.captures, raised |-> r.raised,
                       before |-> attempts, sinkRaises |-> sinkRaises]
  /\ UNCHANGED <<env, external, shutting_down, janus_ws, janus_proc, linkVars,
                 startVars, supVars, alive, sdVars, pc_send>>

\* on_message(ws, msg): lines 124-126
on_message(l) ==
  /\ link[l] = "open"
  /\ \E raw_msg \in env.msgs, sinkRaises \in BOOLEAN :
       LET r == process_janus_msg(raw_msg, sinkRaises)
       IN  /\ attempts' = IF ~r.raised /\ Truthy(r.ret)
                            THEN reset(attempts) ELSE attempts
           /\ last' = [op |-> "on_message", link |-> l, raw |-> raw_msg,
                       plugin |-> r.plugin, server |-> r.server,
                       captures |-> r.captures, raised |-> r.raised,
                       before |-> attempts, sinkRaises |-> sinkRaises]
  /\ UNCHANGED <<env, external, shutting_down, janus_ws, janus_proc, linkVars,
                 startVars, supVars, alive, sdVars, pc_send>>

\* on_close that counts every close itself, whatever the backoff allows
on_close_more_uncapped(l) ==
  /\ link[l] = "closed"
  /\ attempts' = attempts + 1
  /\ cbExh' = [cbExh EXCEPT ![l] = exhausted(attempts)]
  /\ link' = [link EXCEPT ![l] = "cb_check"]
  /\ last' = NoOp
  /\ UNCHANGED <<env, external, shutting_down, janus_ws, janus_proc, cbNew,
                 startVars, supVars, alive, sdVars, pc_send>>

\* on_close, line 119: self.janus_ws_backoff.more(...)
on_close_more(l) ==
  /\ link[l] = "closed"
  /\ attempts' = more(attempts)
  /\ cbExh' = [cbExh EXCEPT ![l] = exhausted(attempts)]
  /\ link' = [link EXCEPT ![l] = "cb_check"]
  /\ last' = NoOp
  /\ UNCHANGED <<env, external, shutting_down, janus_ws, janus_proc, cbNew,
                 startVars, supVars, alive, sdVars, pc_send>>

\* on_close that also gives up, without reconnecting, once the backoff is
\* exhausted
on_close_check_gives_up(l) ==
  /\ link[l] = "cb_check"
  /\ IF ~shutting_down /\ ~cbExh[l]
       THEN /\ link' = [link EXCEPT ![l] = "cb_start"]
            /\ last' = NoOp
            /\ UNCHANGED cbExh
       ELSE /\ link' = [link EXCEPT ![l] = "free"]
            /\ cbExh' = [cbExh EXCEPT ![l] = FALSE]
            /\ last' = [op |-> "on_close", flag |-> shutting_down,
                        calls |-> 0, exh |-> cbExh[l]]
  /\ UNCHANGED <<env, external, shutting_down, janus_ws, janus_proc, attempts,
                 cbNew, startVars, supVars, alive, sdVars, pc_send>>

\* on_close, line 120: if not self.shutting_down; the handler returns when
\* the flag is set
on_close_check(l) ==
  /\ link[l] = "cb_check"
  /\ IF ~shutting_down
       THEN /\ link' = [link EXCEPT ![l] = "cb_start"]
            /\ last' = NoOp
            /\ UNCHANGED cbExh
       ELSE /\ link' = [link EXCEPT ![l] = "free"]
            /\ cbExh' = [cbExh EXCEPT ![l] = FALSE]
            /\ last' = [op |-> "on_close", flag |-> shutting_down,
                        calls |-> 0, exh |-> cbExh[l]]
  /\ UNCHANGED <<env, external, shutting_down, janus_ws, janus_proc, attempts,
                 cbNew, startVars, supVars, alive, sdVars, pc_send>>

\* on_close, line 122 -> start_janus_ws: WebSocketClient(...) is constructed
on_close_new(l) ==
  /\ link[l] = "cb_start"
  /\ Unused # {}
  /\ link' = [link EXCEPT ![l] = "cb_assign", ![Fresh] = "open"]
  /\ cbNew' = [cbNew EXCEPT ![l] = Fresh]
  /\ last' = [op |-> "start_janus_ws", sd |-> shutting_down]
  /\ UNCHANGED <<env, external, shutting_down, janus_ws, janus_proc, attempts,
                 cbExh, startVars, supVars, alive, sdVars, pc_send>>

\* on_close, line 122 -> start_janus_ws: self.janus_ws = <the new client>,
\* and the handler returns
on_close_assign(l) ==
  /\ link[l] = "cb_assign"
  /\ janus_ws' = cbNew[l]
  /\ cbNew' = [cbNew EXCEPT ![l] = None]
  /\ cbExh' = [cbExh EXCEPT ![l] = FALSE]
  /\ link' = [link EXCEPT ![l] = "free"]
  /\ last' = [op |-> "on_close", flag |-> FALSE,
              calls |-> IF cbNew[l] # None THEN 1 ELSE 0, exh |-> cbExh[l]]
  /\ UNCHANGED <<env, external, shutting_down, janus_proc, attempts, startVars,
                 supVars, alive, sdVars, pc_send>>

\* ------------------------------------------------------------------------
\* The supervisor thread: run_janus_forever
\* ------------------------------------------------------------------------
\* setup_janus_config whose failure falls into the handler of lines 86-95
setup_janus_config_reports ==
  /\ pc_sup = "setup"
  /\ \E returncode \in {0, 1} :
       IF returncode # 0
         THEN /\ pc_sup' = "done_unsupported"
              /\ captures' = captures + 1
              /\ alerts' = alerts + 1
         ELSE /\ pc_sup' = "launch"
              /\ UNCHANGED <<captures, alerts>>
  /\ last' = NoOp
  /\ UNCHANGED <<env, external, shutting_down, janus_ws, janus_proc, attempts,
                 linkVars, startVars, tries, num_line_output, hProc, alive,
                 sdVars, pc_send>>

\* setup_janus_config, lines 51-63, with the handler of lines 84-85: a
\* non-zero exit of setup.sh raises JanusNotSupportedException, which is
\* logged as a warning and ends the thread
setup_janus_config ==
  /\ pc_sup = "setup"
  /\ \E returncode \in {0, 1} :
       pc_sup' = IF returncode # 0 THEN "done_unsupported" ELSE "launch"
  /\ last' = NoOp
  /\ UNCHANGED <<env, external, shutting_down, janus_ws, janus_proc, attempts,
                 linkVars, startVars, tries, num_line_output, hProc, alive,
                 alerts, captures, sdVars, pc_send>>

\* run_janus, lines 67-71: Popen of run.sh
run_janus_popen ==
  /\ pc_sup = "launch"
  /\ tries' = tries + 1
  /\ janus_proc' = tries + 1
  /\ alive' = alive \cup {tries + 1}
  /\ num_line_output' = 0
  /\ pc_sup' = "loop"
  /\ last' = [op |-> "popen", sd |-> shutting_down]
  /\ UNCHANGED <<env, external, shutting_down, janus_ws, attempts, linkVars,
                 startVars, hProc, alerts, captures, sdVars, pc_send>>

\* line 72: while not self.shutting_down; run_janus returns when it is set
run_janus_while ==
  /\ pc_sup = "loop"
  /\ pc_sup' = IF shutting_down THEN "done_returned" ELSE "read"
  /\ last' = NoOp
  /\ UNCHANGED <<env, external, shutting_down, janus_ws, janus_proc, attempts,
                 linkVars, startVars, tries, num_line_output, hProc, alive,
                 alerts, captures, sdVars, pc_send>>

\* a retry decorator that gives up one call late
raise_in_run_janus_one_more ==
  IF tries > RUN_MAX_TRIES
    THEN /\ pc_sup' = "done_failed"
         /\ captures' = captures + 1
         /\ alerts' = alerts + 1
    ELSE /\ pc_sup' = "sleep"
         /\ UNCHANGED <<captures, alerts>>

\* an exception leaves run_janus: the decorator sleeps and retries, or after
\* max_tries calls lets it through to the handler of lines 86-95
raise_in_run_janus ==
  IF tries >= RUN_MAX_TRIES
    THEN /\ pc_sup' = "done_failed"
         /\ captures' = captures + 1
         /\ alerts' = alerts + 1
    ELSE /\ pc_sup' = "sleep"
         /\ UNCHANGED <<captures, alerts>>

\* line 73: self.janus_proc.stdout.readline() is called; self.janus_proc
\* being None raises AttributeError
run_janus_readline_call ==
  /\ pc_sup = "read"
  /\ IF janus_proc = None
       THEN /\ raise_in_run_janus
            /\ last' = [op |-> "raise", error |-> "AttributeError",
                        sd |-> shutting_down]
            /\ UNCHANGED hProc
       ELSE /\ hProc' = janus_proc
            /\ pc_sup' = "reading"
            /\ last' = NoOp
            /\ UNCHANGED <<captures, alerts>>
  /\ UNCHANGED <<env, external, shutting_down, janus_ws, janus_proc, attempts,
                 linkVars, startVars, tries, num_line_output, alive,
                 sdVars, pc_send>>

\* lines 73-76: readline() returns a line of a running process, or '' once
\* the process has exited; a line below the cap is counted and logged
run_janus_readline ==
  /\ pc_sup = "reading"
  /\ \E line \in {"", "janus output"} :
       /\ line = "" <=> hProc \notin alive
       /\ line # "" => num_line_output < env.lines
       /\ IF line # "" /\ num_line_output < LOG_CAP
            THEN /\ num_line_output' = num_line_output + 1
                 /\ pc_sup' = "loop"
            ELSE /\ pc_sup' = "elif"
                 /\ UNCHANGED num_line_output
       /\ last' = [op |-> "readline", line |-> line]
  /\ hProc' = None
  /\ UNCHANGED <<env, external, shutting_down, janus_ws, janus_proc, attempts,
                 linkVars, startVars, tries, alive, alerts, captures,
                 sdVars, pc_send>>

\* line 77: elif not self.shutting_down
run_janus_elif ==
  /\ pc_sup = "elif"
  /\ pc_sup' = IF ~shutting_down THEN "wait" ELSE "loop"
  /\ last' = NoOp
  /\ UNCHANGED <<env, external, shutting_down, janus_ws, janus_proc, attempts,
                 linkVars, startVars, tries, num_line_output, hProc, alive,
                 alerts, captures, sdVars, pc_send>>

\* line 78: self.janus_proc.wait() is called; self.janus_proc being None
\* raises AttributeError
run_janus_wait_call ==
  /\ pc_sup = "wait"
  /\ IF janus_proc = None
       THEN /\ raise_in_run_janus
            /\ last' = [op |-> "raise", error |-> "AttributeError",
                        sd |-> shutting_down]
            /\ UNCHANGED hProc
       ELSE /\ hProc' = janus_proc
            /\ pc_sup' = "waiting"
            /\ last' = NoOp
            /\ UNCHANGED <<captures, alerts>>
  /\ UNCHANGED <<env, external, shutting_down, janus_ws, janus_proc, attempts,
                 linkVars, startVars, tries, num_line_output, alive,
                 sdVars, pc_send>>

\* lines 78-79: wait() returns once the process has exited, and 'Janus quit!'
\* is raised
run_janus_wait ==
  /\ pc_sup = "waiting"
  /\ hProc \notin alive
  /\ raise_in_run_janus
  /\ hProc' = None
  /\ last' = [op |-> "raise", error |-> "Janus quit", sd |-> shutting_down]
  /\ UNCHANGED <<env, external, shutting_down, janus_ws, janus_proc, attempts,
                 linkVars, startVars, tries, num_line_output, alive,
                 sdVars, pc_send>>

\* the retry decorator of line 65 has slept and calls run_janus again
run_janus_retry ==
  /\ pc_sup = "sleep"
  /\ pc_sup' = "launch"
  /\ last' = NoOp
  /\ UNCHANGED <<env, external, shutting_down, janus_ws, janus_proc, attempts,
                 linkVars, startVars, tries, num_line_output, hProc, alive,
                 alerts, captures, sdVars, pc_send>>

\* a gateway process exits on its own
janus_exits(p) ==
  /\ p \in alive
  /\ alive' = alive \ {p}
  /\ last' = NoOp
  /\ UNCHANGED <<env, external, shutting_down, janus_ws, janus_proc, attempts,
                 linkVars, startVars, supVars, sdVars, pc_send>>


\* ------------------------------------------------------------------------
\* shutdown()
\* ------------------------------------------------------------------------
\* line 136: self.shutting_down = True, on a call of shutdown()
shutdown_flag ==
  /\ pc_sd \in {"idle", "returned", "raised"}
  /\ sdCalls < env.shutdowns
  /\ sdCalls' = sdCalls + 1
  /\ shutting_down' = TRUE
  /\ pc_sd' = "close"
  /\ last' = NoOp
  /\ UNCHANGED <<env, external, janus_ws, janus_proc, attempts, linkVars,
                 startVars, supVars, alive, pc_send>>

\* lines 138-139: close() is called on the current link, if any; when it
\* returns the on_close of the link is due, when it raises the exception
\* leaves shutdown()
shutdown_close ==
  /\ pc_sd = "close"
  /\ IF janus_ws # None
       THEN \E closeRaises \in {FALSE, env.closeFails} :
              IF closeRaises
                THEN /\ pc_sd' = "raised"
                     /\ last' = [op |-> "shutdown", call |-> sdCalls,
                                 raised |-> TRUE]
                     /\ UNCHANGED link
                ELSE /\ pc_sd' = "clear_ws"
                     /\ last' = [op |-> "close", call |-> sdCalls]
                     /\ link' = IF link[janus_ws] = "open"
                                  THEN [link EXCEPT ![janus_ws] = "closed"]
                                  ELSE link
       ELSE /\ pc_sd' = "clear_ws"
            /\ last' = NoOp
            /\ UNCHANGED link
  /\ UNCHANGED <<env, external, shutting_down, janus_ws, janus_proc, attempts,
                 cbNew, cbExh, startVars, supVars, alive, sdCalls, pc_send>>

\* line 141: self.janus_ws = None
shutdown_clear_ws ==
  /\ pc_sd = "clear_ws"
  /\ janus_ws' = None
  /\ pc_sd' = "terminate"
  /\ last' = NoOp
  /\ UNCHANGED <<env, external, shutting_down, janus_proc, attempts, linkVars,
                 startVars, supVars, alive, sdCalls, pc_send>>

\* lines 143-147: terminate() of the current process, if any; an exception
\* of terminate() is swallowed. terminate() only sends SIGTERM: the process
\* has exited when shutdown() goes on, or it has not yet (the signal is still
\* being handled, or terminate() raised)
shutdown_terminate ==
  /\ pc_sd = "terminate"
  /\ IF janus_proc # None
       THEN \E terminateRaises \in BOOLEAN :
              /\ alive' = IF terminateRaises THEN alive
                          ELSE alive \ {janus_proc}
              /\ last' = [op |-> "terminate", call |-> sdCalls]
       ELSE /\ last' = NoOp
            /\ UNCHANGED alive
  /\ pc_sd' = "clear_proc"
  /\ UNCHANGED <<env, external, shutting_down, janus_ws, janus_proc, attempts,
                 linkVars, startVars, supVars, sdCalls, pc_send>>

\* line 149: self.janus_proc = None, and shutdown() returns
shutdown_clear_proc ==
  /\ pc_sd = "clear_proc"
  /\ janus_proc' = None
  /\ pc_sd' = "returned"
  /\ last' = [op |-> "shutdown", call |-> sdCalls, raised |-> FALSE]
  /\ UNCHANGED <<env, external, shutting_down, janus_ws, attempts, linkVars,
                 startVars, supVars, alive, sdCalls, pc_send>>

\* ------------------------------------------------------------------------
\* pass_to_janus(msg) and connected()
\* ------------------------------------------------------------------------
\* line 105, left operand: self.janus_ws is read; None makes connected()
\* falsy and pass_to_janus returns
connected_read ==
  /\ pc_send = "idle"
  /\ env.sends
  /\ IF janus_ws = None
       THEN /\ pc_send' = "idle"
            /\ last' = [op |-> "pass_to_janus", outcome |-> "noop"]
       ELSE /\ pc_send' = "connected"
            /\ last' = NoOp
  /\ UNCHANGED <<env, external, shutting_down, janus_ws, janus_proc, attempts,
                 linkVars, startVars, supVars, alive, sdVars>>

\* line 105, right operand: self.janus_ws is read again and .connected() is
\* called on it
connected_call ==
  /\ pc_send = "connected"
  /\ IF janus_ws = None
       THEN /\ pc_send' = "idle"
            /\ last' = [op |-> "pass_to_janus", outcome |-> "AttributeError"]
       ELSE IF ws_connected(janus_ws)
         THEN /\ pc_send' = "send"
              /\ last' = NoOp
         ELSE /\ pc_send' = "idle"
              /\ last' = [op |-> "pass_to_janus", outcome |-> "noop"]
  /\ UNCHANGED <<env, external, shutting_down, janus_ws, janus_proc, attempts,
                 linkVars, startVars, supVars, alive, sdVars>>

\* line 109: self.janus_ws is read a third time and .send(msg) is called on it
pass_to_janus_send ==
  /\ pc_send = "send"
  /\ pc_send' = "idle"
  /\ last' = [op |-> "pass_to_janus",
              outcome |-> IF janus_ws = None THEN "AttributeError"
                          ELSE IF ws_connected(janus_ws) THEN "sent"
                          ELSE "send_on_closed"]
  /\ UNCHANGED <<env, external, shutting_down, janus_ws, janus_proc, attempts,
                 linkVars, startVars, supVars, alive, sdVars>>

\* ------------------------------------------------------------------------
\* Specification
\* ------------------------------------------------------------------------
Next ==
  \/ start
  \/ wait_for_janus
  \/ start_janus_ws_new
  \/ start_janus_ws_assign
  \/ \E l \in Links : ws_closed(l)
  \/ \E l \in Links : on_message(l)
  \/ \E l \in Links : on_close_more(l)
  \/ \E l \in Links : on_close_check(l)
  \/ \E l \in Links : on_close_new(l)
  \/ \E l \in Links : on_close_assign(l)
  \/ setup_janus_config
  \/ run_janus_popen
  \/ run_janus_while
  \/ run_janus_readline_call
  \/ run_janus_readline
  \/ run_janus_elif
  \/ run_janus_wait_call
  \/ run_janus_wait
  \/ run_janus_retry
  \/ \E p \in Procs : janus_exits(p)
  \/ shutdown_flag
  \/ shutdown_close
  \/ shutdown_clear_ws
  \/ shutdown_terminate
  \/ shutdown_clear_proc
  \/ connected_read
  \/ connected_call
  \/ pass_to_janus_send

Spec == Init /\ [][Next]_vars

LinkActions ==
  \/ start
  \/ start_janus_ws_new
  \/ start_janus_ws_assign
  \/ \E l \in Links : ws_closed(l)
  \/ \E l \in Links : on_message(l)
  \/ \E l \in Links : on_close_more(l)
  \/ \E l \in Links : on_close_check(l)
  \/ \E l \in Links : on_close_new(l)
  \/ \E l \in Links : on_close_assign(l)
  \/ shutdown_flag
  \/ shutdown_close
  \/ shutdown_clear_ws
  \/ shutdown_terminate
  \/ shutdown_clear_proc

\* the steps an external gateway leaves enabled
NextLink == LinkActions

SpecLink == InitLink /\ [][NextLink]_vars

NextMsg == LinkActions

SpecMsg == InitMsg /\ [][NextMsg]_vars


\* the steps left when the remote end keeps the link up, nothing arrives on
\* it and nothing is sent
NextShutdown ==
  \/ start
  \/ wait_for_janus
  \/ start_janus_ws_new
  \/ start_janus_ws_assign
  \/ \E l \in Links : on_close_more(l)
  \/ \E l \in Links : on_close_check(l)
  \/ setup_janus_config
  \/ run_janus_popen
  \/ run_janus_while
  \/ run_janus_readline_call
  \/ run_janus_readline
  \/ run_janus_elif
  \/ run_janus_wait_call
  \/ run_janus_wait
  \/ run_janus_retry
  \/ \E p \in Procs : janus_exits(p)
  \/ shutdown_flag
  \/ shutdown_close
  \/ shutdown_clear_ws
  \/ shutdown_terminate
  \/ shutdown_clear_proc

SpecShutdown == InitShutdown /\ [][NextShutdown]_vars

\* the steps of start() and of the supervisor thread
NextDrain ==
  \/ start
  \/ wait_for_janus
  \/ start_janus_ws_new
  \/ start_janus_ws_assign
  \/ setup_janus_config
  \/ run_janus_popen
  \/ run_janus_while
  \/ run_janus_readline_call
  \/ run_janus_readline
  \/ run_janus_elif
  \/ run_janus_wait_call
  \/ run_janus_wait
  \/ run_janus_retry
  \/ \E p \in Procs : janus_exits(p)

SpecDrain == InitDrain /\ [][NextDrain]_vars

\* ------------------------------------------------------------------------
\* Properties
\* ------------------------------------------------------------------------
\* a call of shutdown() has returned and none is running
ShutdownReturned == pc_sd = "returned"

\* C1: once shutdown() has set shutting_down no WebSocketClient is created,
\* and janus_ws is None after shutdown() has returned.
C1_NoLinkAfterShutdown ==
  /\ ~(last.op = "start_janus_ws" /\ last.sd)
  /\ ShutdownReturned => janus_ws = None

\* C2: once shutdown() has set shutting_down run.sh is not launched again,
\* and janus_proc is None after shutdown() has returned.
C2_NoLaunchAfterShutdown ==
  /\ ~(last.op = "popen" /\ last.sd)
  /\ ShutdownReturned => janus_proc = None

C4_PresenceRoutesInternally ==
  (last.op = "on_message" /\ HasPath(loads(last.raw))) =>
     /\ Len(last.server) = 0
     /\ Len(last.plugin) = 1
     /\ last.plugin[1] =
          loads(last.raw).v["plugindata"].v["data"].v["thespaghettidetective"]

\* C5: a parseable message that lacks plugindata.data.<namespace> is handed
\* to send_ws_msg_to_server once as {janus: raw text}, and never to
\* on_message_to_plugin.
C5_AbsenceRelaysVerbatim ==
  (last.op = "on_message" /\ ~IsRaise(loads(last.raw))
     /\ ~HasPath(loads(last.raw))) =>
     /\ Len(last.plugin) = 0
     /\ last.server = <<[janus |-> last.raw]>>

\* C6: after a message that was forwarded to the remote-server sink the link
\* backoff attempt count is zero, and on_message never increases it.
C6_RelayResetsBackoff ==
  last.op = "on_message" =>
     /\ attempts <= last.before
     /\ Len(last.server) > 0 => attempts = 0

C8_AtMostFiveLaunches ==
  /\ tries <= RUN_MAX_TRIES
  /\ pc_sup \in {"sleep", "launch"} => tries < RUN_MAX_TRIES
  /\ pc_sup = "done_failed" =>
       (tries = RUN_MAX_TRIES /\ captures = 1 /\ alerts = 1)
  /\ pc_sup # "done_failed" => (captures = 0 /\ alerts = 0)

\* C8 witness: without any shutdown, five launches failed, the last of them
\* after a healthy run that wrote output
C8_Witness ==
  pc_sup = "done_failed" /\ ~shutting_down /\ num_line_output > 0

\* C9: pass_to_janus never raises: neither connected() nor send is invoked
\* on a janus_ws that is None.
C9_SendNeverDereferencesNone ==
  ~(last.op = "pass_to_janus" /\ last.outcome = "AttributeError")

\* C10: a text that is not JSON yields exactly one captureException, no call
\* of on_message_to_plugin, no call of send_ws_msg_to_server and no exception
\* in the link callback; the link stays open and the attempt count is as it
\* was.
C10_UnparseableIsDropped ==
  (last.op = "on_message" /\ IsRaise(loads(last.raw))) =>
     /\ last.captures = 1
     /\ Len(last.plugin) = 0 /\ Len(last.server) = 0
     /\ ~last.raised
     /\ link[last.link] = "open"
     /\ attempts = last.before

\* C10 witness: a text that is not JSON arrived on a link whose backoff had
\* counted a close
C10_Witness ==
  last.op = "on_message" /\ IsRaise(loads(last.raw)) /\ last.before > 0


\* C11 as stated: when wait_for_janus has failed its 10 tries, start() has
\* opened no link, the failure is reported with one crash report and one
\* alert, and no exception leaves start().
C11_ProbeFailureIsReported ==
  probeTries >= PROBE_MAX_TRIES =>
     /\ startNew = None /\ janus_ws = None
     /\ pc_start # "raised"
     /\ captures = 1 /\ alerts = 1

\* C12: with the local gateway, whenever start_janus_ws creates a link,
\* wait_for_janus has returned before, and the supervisor thread was started
\* before that.
C12_ProbeBeforeFirstLink ==
  ~external =>
     /\ (last.op = "start_janus_ws" \/ janus_ws # None
           \/ \E l \in Links : link[l] # "free") => probed
     /\ probed => pc_sup # "none"
     /\ pc_start \in {"ws_new", "ws_assign", "done"} => probed

\* C12 witness: start() is creating the first link of a local gateway
C12_Witness ==
  ~external /\ last.op = "start_janus_ws" /\ pc_start = "ws_assign"

\* C13: with the override set no supervisor thread exists, setup.sh and
\* run.sh are never launched, the probe is never run and janus_proc is None.
C13_ExternalBypassesSupervisor ==
  external =>
     /\ pc_sup = "none" /\ tries = 0 /\ alive = {} /\ janus_proc = None
     /\ probeTries = 0 /\ ~probed /\ pc_start \notin {"probe", "raised"}
     /\ captures = 0 /\ alerts = 0

\* C13 witness: an external gateway whose link was closed, reconnected and
\* shut down
C13_Witness ==
  external /\ attempts > 0 /\ ShutdownReturned /\ pc_start = "done"


\* C14: no call of shutdown() raises; each call ends with shutting_down set,
\* janus_ws None and janus_proc None; a call after the first calls neither
\* close() nor terminate().
C14_ShutdownIdempotent ==
  /\ pc_sd # "raised"
  /\ last.op = "shutdown" =>
       (~last.raised /\ shutting_down /\ janus_ws = None /\ janus_proc = None)
  /\ last.op \in {"close", "terminate"} => last.call = 1

\* C15: shutdown() sets the flag, then closes the link, then terminates the
\* process; a call in which close() failed still ends with janus_ws None and
\* janus_proc None.
C15_CloseFailureStillCleans ==
  /\ pc_sd \notin {"idle"} => shutting_down
  /\ (last.op = "shutdown" /\ last.raised) =>
       (janus_ws = None /\ janus_proc = None)

\* C16: while the gateway process runs and shutting_down is false, a
\* non-empty line is read and the loop goes on to the next read, however
\* many lines came before it; wait() and 'Janus quit!' are reached only
\* once the stream has ended, that is once the process has exited
C16_DrainsPastCap ==
  /\ (last.op = "readline" /\ last.line # "") => pc_sup = "loop"
  /\ pc_sup \in {"wait", "waiting"} => janus_proc \notin alive

\* C17: in every reachable state at most one gateway process launched by
\* the bridge is alive and at most one link instance is open
C17_OneProcessOneLink ==
  /\ Cardinality(alive) <= 1
  /\ Cardinality({l \in Links : link[l] = "open"}) <= 1

C19_ShutdownEndsSupervisorQuietly ==
  ~(last.op = "raise" /\ last.sd /\ last.error = "AttributeError")

\* C20: for every inbound message, also when the collaborator that is
\* called raises, no exception leaves process_janus_msg, at most one
\* dispatch (internal or relay) is made, a failure (parse or lookup error,
\* or a raising collaborator) gives exactly one captureException, the link
\* stays open and the backoff count is not reset
C20_MessageFailureIsContained ==
  last.op = "on_message" =>
    LET dispatches == Len(last.plugin) + Len(last.server)
        failure == dispatches = 0 \/ last.sinkRaises
    IN  /\ ~last.raised
        /\ dispatches <= 1
        /\ last.captures = (IF failure THEN 1 ELSE 0)
        /\ link[last.link] = "open"
        /\ failure => attempts = last.before

\* C20 witness: on_message_to_plugin raised on a message routed to it,
\* while the backoff count was above zero
C20_Witness ==
  /\ last.op = "on_message" /\ last.sinkRaises
  /\ Len(last.plugin) = 1 /\ Len(last.server) = 0
  /\ last.captures = 1 /\ last.before > 0

====
